---- MODULE Spec2Model ----
(***************************************************************************)
(* A model of the data-acquisition-and-reconciliation layer:               *)
(*   - utils/utils.py         ensure_table_exists, upsert_to_mysql         *)
(*   - utils/table_generator  generator (the schema catalogue)             *)
(*   - factor_lab/base.py     FactorBase.fetch_data (gap fill)             *)
(*   - pipelines/daily_update update_stock_daily (factor reconciliation)   *)
(* The relational store is MySQL/InnoDB behind SQLAlchemy: a table is a    *)
(* multiset of rows, with or without a unique key.                         *)
(***************************************************************************)
EXTENDS Integers, Sequences, FiniteSets, Bags, TLC

(***************************************************************************)
(* Bounds of the model.                                                    *)
(***************************************************************************)
\* longest row-set (DataFrame) handed to one upsert call
MaxBatch == 2
\* most rows a table is let grow to (caps the key-less table, which only grows)
MaxRows == 4
\* longest row-set of a concurrent writer
MaxConcBatch == 3

NULL == "NULL"
NONE == "none"

\* key tuples of the rows (ts_code, trade_date[, data_name]) and cell values
Keys == {"k1", "k2"}
Vals == {"10.0", "10.5"}

(***************************************************************************)
(* Rows are functions from column names to values.  The row-sets of the    *)
(* upsert model have one key column and one value column.                  *)
(***************************************************************************)
KeyCols == {"k"}
DfCols == {"k", "v"}
Rows == [k : Keys, v : Vals]

RECURSIVE SeqsUpTo(_, _)
SeqsUpTo(S, n) ==
    IF n = 0 THEN {<<>>}
    ELSE LET shorter == SeqsUpTo(S, n - 1)
         IN  shorter \cup {Append(s, x) : s \in {t \in shorter : Len(t) = n - 1}, x \in S}

\* the row-sets a caller may pass, the empty one included
Batches == SeqsUpTo(Rows, MaxBatch)

(***************************************************************************)
(* utils/table_generator.py: the catalogue of CREATE TABLE statements.     *)
(* Every entry declares a PRIMARY KEY; 'extra_data' and 'narrow_data' are  *)
(* not entries.                                                            *)
(***************************************************************************)
generator ==
    [n \in {"stock_basic_info", "index_basic_info", "stock_daily", "index_daily",
            "factor_metadata", "factor_panel_data",
            "factor_panel_data_without_foreign_key"} |-> [pk |-> KeyCols]]

TableNames == {"stock_daily", "extra_data"}

\* create_sql_command, split as ensure_table_exists reads it: the first
\* eleven characters lower-cased, and the rest lower-cased with blanks removed
CreateSqls ==
    { [head |-> "", rest |-> ""],
      [head |-> "auto", rest |-> ""],
      [head |-> "use default", rest |-> "stock_daily"],
      [head |-> "use default", rest |-> "narrow_data"],
      [head |-> "create table", rest |-> "ddl"] }

\* the create_sql_command default of upsert_to_mysql
DefaultCreateSql == [head |-> "", rest |-> ""]

(***************************************************************************)
(* The store: one table.                                                   *)
(***************************************************************************)
AbsentTable == [exists |-> FALSE, pk |-> {}, rows |-> EmptyBag]
EmptyTable(pk) == [exists |-> TRUE, pk |-> pk, rows |-> EmptyBag]

\* what the server may do to a call: nothing, or fail it at one of its steps
Faults == {"none", "inspect", "create", "to_sql_rows", "insert"}

(***************************************************************************)
(* MySQL: INSERT INTO t (cols) VALUES (...) ON DUPLICATE KEY UPDATE        *)
(* c = VALUES(c), ... for one row.  A duplicate is decided by the table's  *)
(* own unique key; a table without one takes every row as new.             *)
(***************************************************************************)
\* a slip the statement could have: REPLACE INTO, the stored row gives way
\* to the new one
ReplaceInto(tbl, r, update_cols) ==
    LET match == {e \in BagToSet(tbl.rows) : \A c \in tbl.pk : e[c] = r[c]}
    IN  IF tbl.pk # {} /\ match # {}
        THEN [tbl EXCEPT !.rows = (@ (-) SetToBag({CHOOSE x \in match : TRUE}))
                                  (+) SetToBag({r})]
        ELSE [tbl EXCEPT !.rows = @ (+) SetToBag({r})]

InsertOnDuplicateKeyUpdate(tbl, r, update_cols) ==
    LET match == {e \in BagToSet(tbl.rows) : \A c \in tbl.pk : e[c] = r[c]}
    IN  IF tbl.pk # {} /\ match # {}
        THEN LET e == CHOOSE x \in match : TRUE
                 upd == [c \in DOMAIN e \cup update_cols |->
                            IF c \in update_cols THEN r[c] ELSE e[c]]
             IN  [tbl EXCEPT !.rows = (@ (-) SetToBag({e})) (+) SetToBag({upd})]
        ELSE [tbl EXCEPT !.rows = @ (+) SetToBag({r})]

\* conn.execute(text(sql_query), data_list_of_dicts): the rows in order
RECURSIVE executemany(_, _, _)
executemany(tbl, df, update_cols) ==
    IF df = <<>> THEN tbl
    ELSE executemany(InsertOnDuplicateKeyUpdate(tbl, Head(df), update_cols),
                     Tail(df), update_cols)

\* update_cols: every column of the row-set that is not in primary_key
UpdateCols(cols, primary_key) == cols \ primary_key

\* df.to_sql(table_name, engine): a new table typed after the row-set, with
\* no key, holding the row-set (pandas' index column is left out of the rows)
RECURSIVE BagOfSeq(_)
BagOfSeq(df) ==
    IF df = <<>> THEN EmptyBag ELSE SetToBag({Head(df)}) (+) BagOfSeq(Tail(df))

to_sql(df) == [exists |-> TRUE, pk |-> {}, rows |-> BagOfSeq(df)]

\* connection.execute(text(create_sql.format(...))) with a catalogue statement
\* or the caller's own statement: a table with a primary key
CreateTable(pk) == EmptyTable(pk)

\* lines 27-39: no statement given ("", "auto"): the catalogue entry named
\* like the table, else a table inferred from the row-set by df.to_sql
AutoBranch(tbl, table_name, df, fault) ==
    IF table_name \in DOMAIN generator
    THEN IF fault = "create" THEN [ok |-> FALSE, store |-> tbl]
         ELSE [ok |-> TRUE, store |-> CreateTable(generator[table_name].pk)]
    ELSE IF df = <<>> THEN [ok |-> FALSE, store |-> tbl]
    ELSE IF fault = "create" THEN [ok |-> FALSE, store |-> tbl]
    ELSE IF fault = "to_sql_rows" THEN [ok |-> FALSE, store |-> to_sql(<<>>)]
    ELSE [ok |-> TRUE, store |-> to_sql(df)]

\* a slip the use-default branch could have: an unknown name falls back to
\* the table inferred from the row-set
UseDefaultBranchFallback(tbl, create_sql, df, fault) ==
    IF create_sql.rest \in DOMAIN generator
    THEN IF fault = "create" THEN [ok |-> FALSE, store |-> tbl]
         ELSE [ok |-> TRUE, store |-> CreateTable(generator[create_sql.rest].pk)]
    ELSE [ok |-> TRUE, store |-> to_sql(df)]

\* lines 40-47: "USE DEFAULT <name>": the catalogue entry <name>, or failure
UseDefaultBranch(tbl, create_sql, df, fault) ==
    IF create_sql.rest \in DOMAIN generator
    THEN IF fault = "create" THEN [ok |-> FALSE, store |-> tbl]
         ELSE [ok |-> TRUE, store |-> CreateTable(generator[create_sql.rest].pk)]
    ELSE [ok |-> FALSE, store |-> tbl]

(***************************************************************************)
(* ensure_table_exists: [ok, store].  A failure of inspect() leaves the    *)
(* function through logger.catch with None, which the caller reads as      *)
(* False.  Any other statement is the caller's own CREATE TABLE.           *)
(***************************************************************************)
ensure_table_exists(tbl, table_name, create_sql, df, fault) ==
    IF fault = "inspect" THEN [ok |-> FALSE, store |-> tbl]
    ELSE IF tbl.exists THEN [ok |-> TRUE, store |-> tbl]
    ELSE IF create_sql.head \in {"", "auto", "akaza akari"}
    THEN AutoBranch(tbl, table_name, df, fault)
    ELSE IF create_sql.head = "use default"
    THEN UseDefaultBranch(tbl, create_sql, df, fault)
    ELSE IF fault = "create" THEN [ok |-> FALSE, store |-> tbl]
         ELSE [ok |-> TRUE, store |-> CreateTable(KeyCols)]

\* a slip the boundary could have: the exception is logged and raised again
ExceptBoundaryReraise(outcome) == [ret |-> "None", raised |-> (outcome = "failed")]

\* the except clause of upsert_to_mysql (and logger.catch around it): what the
\* caller sees of a call that ended with `outcome`
ExceptBoundary(outcome) == [ret |-> "None", raised |-> FALSE]

\* df.columns: an empty row-set still has its columns
Columns(df) == IF df = <<>> THEN DfCols ELSE DOMAIN Head(df)

\* a slip line 86 could have: the empty row-set is not looked for
IsEmptyNever(df) == FALSE

\* line 86: df_uncleaned is None or df_uncleaned.empty
IsEmpty(df) == df = <<>>

(***************************************************************************)
(* upsert_to_mysql: [store, outcome, ret, raised].                         *)
(***************************************************************************)
upsert_to_mysql(tbl, table_name, df, primary_key, create_sql, fault) ==
    IF IsEmpty(df)
    THEN [store |-> tbl, outcome |-> "noop", ret |-> "None", raised |-> FALSE]
    ELSE LET update_cols == UpdateCols(Columns(df), primary_key)
             ens == ensure_table_exists(tbl, table_name, create_sql, df, fault)
         IN  IF ens.ok /\ fault # "insert" /\ update_cols # {}
             THEN [store |-> executemany(ens.store, df, update_cols), outcome |-> "ok",
                   ret |-> "None", raised |-> FALSE]
             ELSE [store |-> ens.store, outcome |-> "failed",
                   ret |-> ExceptBoundary("failed").ret,
                   raised |-> ExceptBoundary("failed").raised]

(***************************************************************************)
(* State.                                                                  *)
(*   tableName, store : the target table of the upsert calls               *)
(*   last             : what the latest call was given and how it ended    *)
(*   latest           : per key, the value of the most recent successful   *)
(*                      upsert that contained the key                      *)
(*   callLog          : every (outcome, return value, raised) seen so far  *)
(***************************************************************************)
VARIABLES tableName, store, last, latest, callLog

(***************************************************************************)
(* State of two concurrent calls of upsert_to_mysql on one table.          *)
(*   writers : per writer, its row-set, its place in the call and the      *)
(*             rows it has sent inside its open transaction                *)
(*   store0  : the store when the two calls started                        *)
(***************************************************************************)
VARIABLES writers, store0

(***************************************************************************)
(* State of one call of FactorBase.fetch_data.                             *)
(*   gap : the request, the FetcherBase objects it built, what it returned *)
(***************************************************************************)
VARIABLES gap

(***************************************************************************)
(* State of update_stock_daily.                                            *)
(*   prov  : per symbol, the adjustment factor the provider gives          *)
(*   recon : the latest run: what it read, asked for, got and how it ended *)
(***************************************************************************)
VARIABLES prov, recon

(***************************************************************************)
(* State of one call of FetcherBase.fetch.                                 *)
(*   fetcher : the queries and symbols it was built with, what the         *)
(*             provider answered, and what fetch() returned                *)
(***************************************************************************)
VARIABLES fetcher

(***************************************************************************)
(* State of the callers that compose the functions above.                  *)
(*   fill    : repeated fetch_data calls, each with its own FetcherBase    *)
(*   reshape : a provider response, its long form and the frame pivoted    *)
(*             back from it                                                *)
(*   sync    : the runs of sync_daily_to_narrow over one stock_daily       *)
(*   getter  : one call of get_stock_daily / upsert_daily_markets          *)
(***************************************************************************)
VARIABLES fill, reshape, sync, getter

upsertVars == <<last, latest, callLog>>
concVars == <<writers, store0>>
reconVars == <<prov, recon>>
callerVars == <<fill, reshape, sync, getter>>
vars == <<tableName, store, last, latest, callLog, writers, store0, gap, prov, recon, fetcher,
          fill, reshape, sync, getter>>

NoGap == [pc |-> "idle"]
NoProv == <<>>
NoFetch == [pc |-> "idle"]
NoFill == [pc |-> "idle"]
NoReshape == [pc |-> "idle"]
NoSync == [pc |-> "idle"]
NoGetter == [pc |-> "idle"]
NoRecon == [pc |-> "idle", runs |-> 0, repeat |-> FALSE, providerFailed |-> FALSE,
            active |-> {}, oldest |-> <<>>, checked |-> <<>>, drifted |-> {},
            requests |-> <<>>, returned |-> {}, stored |-> {}, latest |-> <<>>,
            incremental |-> {},
            failed |-> {}, written |-> {}]

Writers == {"w1", "w2"}
NoWriters == [w \in Writers |-> [pc |-> "idle", df |-> <<>>, pos |-> 0]]

\* the primary_key argument: the key columns, or (a key-only row-set) all columns
PrimaryKeys == {KeyCols, DfCols}

\* per key, the value of its last row in the row-set
RECURSIVE Net(_)
Net(df) ==
    IF df = <<>> THEN [k \in Keys |-> NONE]
    ELSE LET r == df[Len(df)]
             front == Net(SubSeq(df, 1, Len(df) - 1))
         IN  [k \in Keys |-> IF front[k] # NONE /\ k # r["k"] THEN front[k]
                             ELSE IF k = r["k"] THEN r["v"] ELSE front[k]]

NoCall ==
    [outcome |-> "none", ret |-> "None", raised |-> FALSE, sql |-> DefaultCreateSql,
     wasAbsent |-> FALSE, net |-> Net(<<>>)]

InitUpsert ==
    /\ tableName \in TableNames
    /\ store \in {AbsentTable, EmptyTable(KeyCols)}
    /\ last = NoCall
    /\ latest = [k \in Keys |-> NONE]
    /\ callLog = {}
    /\ writers = NoWriters
    /\ store0 = AbsentTable
    /\ gap = NoGap
    /\ prov = NoProv
    /\ recon = NoRecon
    /\ fetcher = NoFetch
    /\ fill = NoFill
    /\ reshape = NoReshape
    /\ sync = NoSync
    /\ getter = NoGetter

\* create_sql_command is read only when the table is absent
SqlChoices(tbl) == IF tbl.exists THEN {DefaultCreateSql} ELSE CreateSqls

\* a creation step can fail only when there is one
FaultChoices(tbl) ==
    IF tbl.exists THEN {"none", "inspect", "insert"} ELSE Faults

\* one call of upsert_to_mysql by any caller
Upsert ==
    \E df \in Batches, primary_key \in PrimaryKeys :
      \E sql \in SqlChoices(store), fault \in FaultChoices(store) :
        \E res \in {upsert_to_mysql(store, tableName, df, primary_key, sql, fault)} :
            /\ BagCardinality(res.store.rows) <= MaxRows
            /\ store' = res.store
            /\ last' = [outcome |-> res.outcome, ret |-> res.ret, raised |-> res.raised,
                        sql |-> sql, wasAbsent |-> ~store.exists, net |-> Net(df)]
            /\ latest' = IF res.outcome = "ok"
                         THEN [k \in Keys |-> IF last'.net[k] # NONE THEN last'.net[k]
                                              ELSE latest[k]]
                         ELSE latest
            /\ callLog' = callLog \cup
                   {[outcome |-> res.outcome, ret |-> res.ret, raised |-> res.raised]}
            /\ UNCHANGED <<tableName, concVars, gap, reconVars, fetcher, callerVars>>

NextUpsert == Upsert

SpecUpsert == InitUpsert /\ [][NextUpsert]_vars

(***************************************************************************)
(* Properties of upsert_to_mysql, checked under SpecUpsert.                *)
(***************************************************************************)
RowsWithKey(tbl, k) == {e \in BagToSet(tbl.rows) : e["k"] = k}
CopiesWithKey(tbl, k) == BagCardinality([e \in RowsWithKey(tbl, k) |-> tbl.rows[e]])

\* the store after a call the server does not disturb
Once(tbl, df, primary_key, sql) ==
    upsert_to_mysql(tbl, tableName, df, primary_key, sql, "none").store

\* C1: from every reachable store, for every non-empty row-set, key and
\* create_sql_command, a second identical call leaves the store as the first
\* call left it, whether the first call found the table or created it.
C1_IdempotentUpsert ==
    \A df \in Batches \ {<<>>}, sql \in SqlChoices(store) :
        LET once == Once(store, df, KeyCols, sql)
        IN  Once(once, df, KeyCols, sql) = once

\* C2: the table never holds two rows with one key, and a key that a
\* successful upsert contained reads back as one row with the value of the
\* most recent such upsert.
C2_UniqueLastWriterWins ==
    \A k \in Keys :
        /\ CopiesWithKey(store, k) <= 1
        /\ latest[k] # NONE =>
               /\ CopiesWithKey(store, k) = 1
               /\ BagIn([k |-> k, v |-> latest[k]], store.rows)

\* C6: a call that fails leaves the rows of the store as they were, and a
\* call that succeeds leaves every key of its row-set in the store with the
\* value of its row.
C6_UpsertAtomic ==
    [][ /\ last'.outcome = "failed" => store'.rows = store.rows
        /\ last'.outcome = "ok" =>
               \A k \in Keys : last'.net[k] # NONE =>
                   BagIn([k |-> k, v |-> last'.net[k]], store'.rows) ]_vars

\* C8: a call that leaves create_sql_command at its default, on an absent
\* table whose name is not in the catalogue, creates no table and writes no
\* rows.
C8_NoImplicitInferredTable ==
    (/\ last.outcome \in {"ok", "failed"}
     /\ last.wasAbsent
     /\ last.sql = DefaultCreateSql
     /\ tableName \notin DOMAIN generator) => store = AbsentTable

\* C9: a call on an absent table that names an unknown catalogue entry
\* ('USE DEFAULT <name>') fails and leaves the store without the table and
\* without rows.
C9_UnknownDefaultAborts ==
    (/\ last.outcome \in {"ok", "failed"}
     /\ last.wasAbsent
     /\ last.sql.head = "use default"
     /\ last.sql.rest \notin DOMAIN generator)
        => (last.outcome = "failed" /\ store = AbsentTable)

C9_Witness ==
    /\ last.outcome = "failed"
    /\ last.wasAbsent
    /\ last.sql = [head |-> "use default", rest |-> "narrow_data"]
    /\ last.net # Net(<<>>)
    /\ tableName = "extra_data"

\* C10 as claimed: no call raises, and a failed call returns something a
\* successful call does not.
C10_FailureSignalDistinguishes ==
    /\ \A c \in callLog : ~c.raised
    /\ \A c1, c2 \in callLog :
           (c1.outcome = "ok" /\ c2.outcome = "failed") => c1.ret # c2.ret

\* C10 as amended: no call raises, and every call returns None whether it
\* wrote its rows, failed or was skipped; a failure is only logged.
C10_NoThrowReturnsNone ==
    \A c \in callLog : ~c.raised /\ c.ret = "None"

C10_Witness ==
    /\ \E c \in callLog : c.outcome = "ok"
    /\ \E c \in callLog : c.outcome = "failed"

\* C11: a call given an empty (or no) row-set returns None without raising,
\* whatever the server would have done to a statement, and leaves the store
\* as it was: no table is looked for or created, no row is written.
C11_EmptyUpsertIsNoOp ==
    [][last'.net = Net(<<>>) =>
          /\ store' = store
          /\ last'.outcome = "noop" /\ last'.ret = "None" /\ ~last'.raised]_vars

C11_Witness ==
    /\ last.outcome = "noop" /\ last.net = Net(<<>>)
    /\ last.wasAbsent /\ last.sql.head = "auto" /\ tableName = "stock_daily"
    /\ ~store.exists

(***************************************************************************)
(* Two concurrent calls of upsert_to_mysql on one table (two processes     *)
(* running a fetcher or the pipeline at once).  Each call checks the       *)
(* table, creates it if it saw none, and sends its rows inside             *)
(* `with conn.begin()`.  InnoDB keeps the rows of an open transaction      *)
(* locked by key until commit or rollback, makes them visible at commit,   *)
(* and ends a lock cycle by rolling one transaction back.                  *)
(***************************************************************************)
ConcKeys == Keys \cup {"k3"}

\* the value each writer writes, to tell the writers' rows apart
WriterVal(w) == IF w = "w1" THEN "10.0" ELSE "10.5"

\* non-empty row-sets with distinct keys, as the fetchers produce them
ConcBatches(w) ==
    {df \in SeqsUpTo([k : ConcKeys, v : {WriterVal(w)}], MaxConcBatch) :
        /\ df # <<>>
        /\ \A i, j \in 1..Len(df) : df[i]["k"] = df[j]["k"] => i = j}

\* create_sql_command='auto', as fetch_data and sync_daily_to_narrow pass it
ConcCreateSql == [head |-> "auto", rest |-> ""]

\* a slip: the rows are sent on an autocommit connection, each row its own
\* transaction
NotTransactional == FALSE

\* `with conn.begin() as transaction`: the rows of one call are one transaction
Transactional == TRUE

Other(w) == CHOOSE o \in Writers : o # w

InitConc ==
    /\ \/ tableName = "extra_data" /\ store \in {EmptyTable(KeyCols), to_sql(<<>>)}
       \/ tableName \in TableNames /\ store = AbsentTable
    /\ store0 = store
    /\ writers \in {f \in [Writers -> [pc : {"check"}, pos : {0},
                                        df : ConcBatches("w1") \cup ConcBatches("w2")]] :
                       \A w \in Writers : f[w].df \in ConcBatches(w)}
    /\ last = NoCall
    /\ latest = [k \in Keys |-> NONE]
    /\ callLog = {}
    /\ gap = NoGap
    /\ prov = NoProv
    /\ recon = NoRecon
    /\ fetcher = NoFetch
    /\ fill = NoFill
    /\ reshape = NoReshape
    /\ sync = NoSync
    /\ getter = NoGetter

\* inspector.has_table(table_name)
Check(w) ==
    /\ writers[w].pc = "check"
    /\ writers' = [writers EXCEPT ![w].pc = IF store.exists THEN "write" ELSE "create"]
    /\ UNCHANGED <<tableName, store, store0, upsertVars, gap, reconVars, fetcher, callerVars>>

\* the creation branch of ensure_table_exists, entered because the table was
\* absent when checked; it fails if another call has created the table since
Create(w) ==
    /\ writers[w].pc = "create"
    /\ IF store.exists
       THEN /\ writers' = [writers EXCEPT ![w].pc = "failed"]
            /\ UNCHANGED store
       ELSE \E ens \in {ensure_table_exists(store, tableName, ConcCreateSql,
                                             writers[w].df, "none")} :
                /\ store' = ens.store
                /\ writers' = [writers EXCEPT ![w].pc = IF ens.ok THEN "write" ELSE "failed"]
    /\ UNCHANGED <<tableName, store0, upsertVars, gap, reconVars, fetcher, callerVars>>

\* the keys a writer's open transaction has locked
Locked(w) ==
    IF writers[w].pc = "write" /\ Transactional /\ store.pk # {}
    THEN {writers[w].df[i]["k"] : i \in 1..writers[w].pos}
    ELSE {}

Blocked(w) ==
    /\ writers[w].pc = "write"
    /\ writers[w].pos < Len(writers[w].df)
    /\ writers[w].df[writers[w].pos + 1]["k"] \in Locked(Other(w))

\* the server takes the next row of the statement
WriteRow(w) ==
    /\ writers[w].pc = "write"
    /\ writers[w].pos < Len(writers[w].df)
    /\ ~Blocked(w)
    /\ writers' = [writers EXCEPT ![w].pos = @ + 1]
    /\ store' = IF Transactional THEN store
                ELSE InsertOnDuplicateKeyUpdate(store, writers[w].df[writers[w].pos + 1],
                                                UpdateCols(DfCols, KeyCols))
    /\ UNCHANGED <<tableName, store0, upsertVars, gap, reconVars, fetcher, callerVars>>

\* transaction.commit()
Commit(w) ==
    /\ writers[w].pc = "write"
    /\ writers[w].pos = Len(writers[w].df)
    /\ writers' = [writers EXCEPT ![w].pc = "done"]
    /\ store' = IF Transactional
                THEN executemany(store, writers[w].df, UpdateCols(DfCols, KeyCols))
                ELSE store
    /\ UNCHANGED <<tableName, store0, upsertVars, gap, reconVars, fetcher, callerVars>>

\* each writer waits for a key the other has locked: the server rolls one
\* of them back, and its call ends in the except clause
DeadlockVictim(w) ==
    /\ Blocked(w) /\ Blocked(Other(w))
    /\ writers' = [writers EXCEPT ![w].pc = "victim", ![w].pos = 0]
    /\ UNCHANGED <<tableName, store, store0, upsertVars, gap, reconVars, fetcher, callerVars>>

\* the statement fails on the server: rollback, the except clause
InsertFails(w) ==
    /\ writers[w].pc = "write"
    /\ writers' = [writers EXCEPT ![w].pc = "failed", ![w].pos = 0]
    /\ UNCHANGED <<tableName, store, store0, upsertVars, gap, reconVars, fetcher, callerVars>>

NextConc ==
    \E w \in Writers :
        \/ Check(w)
        \/ Create(w)
        \/ WriteRow(w)
        \/ Commit(w)
        \/ DeadlockVictim(w)
        \/ InsertFails(w)

SpecConc == InitConc /\ [][NextConc]_vars

(***************************************************************************)
(* Properties of concurrent upserts, checked under SpecConc.               *)
(***************************************************************************)
\* the store after the undisturbed call of writer w on store s
Alone(s, w) == upsert_to_mysql(s, tableName, writers[w].df, KeyCols, ConcCreateSql, "none").store

SerialOrders == {Alone(Alone(store0, w), Other(w)) : w \in Writers}

KeysOf(w) == {writers[w].df[i]["k"] : i \in 1..Len(writers[w].df)}

\* C7 as claimed: once both calls have ended (no server error in either),
\* the store is the one that one of the two serial orders of the two calls
\* produces.
C7_SerialOrderOfBoth ==
    (\A w \in Writers : writers[w].pc \in {"done", "victim"}) => store \in SerialOrders

\* C7 as amended: on a table that exists when the calls start, the store
\* always is the one produced by running, in some order, the calls that
\* have committed; a call that has not committed, or has failed (rolled
\* back as a deadlock victim or on a server error), has none of its rows
\* in it, so no key carries a mix of the two writers' row-sets.
C7_SerialOrderOfCommitted ==
    store0.exists =>
        LET committed == {w \in Writers : writers[w].pc = "done"}
        IN  /\ committed = {} => store = store0
            /\ \A w \in Writers : committed = {w} => store = Alone(store0, w)
            /\ committed = Writers => store \in SerialOrders

C7_Witness ==
    /\ store0.exists /\ store0.pk # {}
    /\ writers["w1"].pc = "done" /\ writers["w2"].pc = "victim"
    /\ KeysOf("w2") \ KeysOf("w1") # {}

(***************************************************************************)
(* FactorBase.fetch_data: gap fill over the long table extra_data.         *)
(* A long row is [k |-> <<ts_code, trade_date, data_name>>, v |-> value];  *)
(* a wide frame is written as the set of its non-null cells, so that its   *)
(* index holds the (trade_date, ts_code) pairs with some non-null cell.    *)
(***************************************************************************)
Syms == {"A", "B", "C"}
Dates == 1..2
\* the data_name values the request's queries stand for, and another one
GapFields == {"close"}
OtherField == "pe"
\* the date ranges of a request
Ranges == {<<1, 2>>, <<2, 2>>}

LongRow(sym, d, f, val) == [k |-> <<sym, d, f>>, v |-> val]

\* sql_fetch: SELECT ... FROM extra_data WHERE data_name IN .. AND trade_date
\* BETWEEN .. AND ts_code IN ..
sql_fetch(tbl, ts_codes, fields, start_date, end_date) ==
    {r \in BagToSet(tbl.rows) :
        /\ r.k[3] \in fields
        /\ r.k[2] \in start_date..end_date
        /\ r.k[1] \in ts_codes}

\* DataFrame.pivot_table(index=[trade_date, ts_code], columns=data_name,
\* values=data_value, aggfunc='first'): the first non-null value of each
\* cell; with dropna=True (the default) a group whose value is null is
\* dropped, and so is an index entry left without any cell
pivot_table(narrow) ==
    LET valued == {r \in narrow : r.v # NULL}
    IN  {[k |-> key, v |-> CHOOSE val \in {r.v : r \in {x \in valued : x.k = key}} : TRUE] :
            key \in {r.k : r \in valued}}

\* a slip the except clause could have: rows read before the failure are kept
df_from_db_kept(tbl, ts_codes, start_date, end_date, dbFails) ==
    IF ~tbl.exists THEN {}
    ELSE pivot_table(sql_fetch(tbl, ts_codes, GapFields, start_date, end_date))

\* df_from_db: empty when the query raises (no connection, no table)
df_from_db(tbl, ts_codes, start_date, end_date, dbFails) ==
    IF dbFails \/ ~tbl.exists THEN {}
    ELSE pivot_table(sql_fetch(tbl, ts_codes, GapFields, start_date, end_date))

\* found_ts_codes: the ts_code level of the index of df_from_db
found_ts_codes(wide) == {c.k[1] : c \in wide}

\* missing_ts_codes = list(set(self.ts_codes) - found_ts_codes)
missing_ts_codes(ts_codes, wide) == ts_codes \ found_ts_codes(wide)

\* what FetcherBase(start_date, end_date, ts_codes, queries).fetch() can give
\* back: None after an exception inside it (logger.catch), or long rows of
\* its own symbols: per symbol nothing, valued rows or rows of NaN
FetchOutcomes(ts_codes, start_date, end_date) ==
    {[none |-> TRUE, rows |-> {}]} \cup
    {[none |-> FALSE,
      rows |-> {LongRow(sym, d, f, IF kinds[sym] = "rows" THEN "w" ELSE NULL) :
                   sym \in {x \in ts_codes : kinds[x] # "empty"},
                   d \in start_date..end_date, f \in GapFields}] :
        kinds \in [ts_codes -> {"empty", "rows", "nan"}]}

RECURSIVE SeqOfSet(_)
SeqOfSet(S) ==
    IF S = {} THEN <<>>
    ELSE LET x == CHOOSE y \in S : TRUE IN <<x>> \o SeqOfSet(S \ {x})

\* the stored rows of extra_data before the call
GapStores ==
    {AbsentTable} \cup
    {[exists |-> TRUE, pk |-> KeyCols,
      rows |-> SetToBag({LongRow(c[1], c[2], "close", cell[c]) :
                            c \in {x \in Syms \X Dates : cell[x] # "absent"}}
                        \cup {LongRow("C", 1, OtherField, "v")})] :
        cell \in [Syms \X Dates -> {"absent", NULL, "v"}]}

InitGap ==
    /\ tableName = "extra_data"
    /\ store \in GapStores
    /\ store0 = store
    /\ gap = NoGap
    /\ prov = NoProv
    /\ recon = NoRecon
    /\ fetcher = NoFetch
    /\ fill = NoFill
    /\ reshape = NoReshape
    /\ sync = NoSync
    /\ getter = NoGetter
    /\ last = NoCall
    /\ latest = [k \in Keys |-> NONE]
    /\ callLog = {}
    /\ writers = NoWriters

\* one call of fetch_data(queries, start_date, end_date) on a factor built
\* for ts_codes
FetchData ==
    /\ gap.pc = "idle"
    /\ \E ts_codes \in SUBSET Syms \ {{}}, range \in Ranges, dbFails \in BOOLEAN :
         \E from_db \in {df_from_db(store, ts_codes, range[1], range[2], dbFails)} :
           \E missing \in {missing_ts_codes(ts_codes, from_db)} :
             LET req == [pc |-> "returned", ts_codes |-> ts_codes, start_date |-> range[1],
                         end_date |-> range[2], dbFailed |-> dbFails \/ ~store.exists]
             IN  IF missing = {}
                 THEN /\ gap' = [fetchers |-> <<>>, online |-> {}, raised |-> FALSE,
                                 ret |-> from_db] @@ req
                      /\ UNCHANGED store
                 ELSE \E out \in FetchOutcomes(missing, range[1], range[2]) :
                        IF out.none
                        THEN \* None.empty: AttributeError leaves fetch_data
                             /\ gap' = [fetchers |-> <<missing>>, online |-> {},
                                        raised |-> TRUE, ret |-> {}] @@ req
                             /\ UNCHANGED store
                        ELSE /\ gap' = [fetchers |-> <<missing>>, online |-> out.rows,
                                        raised |-> FALSE,
                                        ret |-> from_db \cup pivot_table(out.rows)] @@ req
                             /\ store' = upsert_to_mysql(store, "extra_data",
                                             SeqOfSet(out.rows), KeyCols,
                                             ConcCreateSql, "none").store
    /\ UNCHANGED <<tableName, store0, upsertVars, writers, reconVars, fetcher, callerVars>>

NextGap == FetchData

SpecGap == InitGap /\ [][NextGap]_vars

(***************************************************************************)
(* Properties of fetch_data, checked under SpecGap.                        *)
(***************************************************************************)
\* what the store query of the call returned
StoredRows ==
    IF gap.dbFailed THEN {}
    ELSE sql_fetch(store0, gap.ts_codes, GapFields, gap.start_date, gap.end_date)

Valued(rows) == {r \in rows : r.v # NULL}

OneFetchOf(symbols) ==
    gap.fetchers = IF symbols = {} THEN <<>> ELSE <<symbols>>

ReturnsStoredAndFetched ==
    ~gap.raised => (Valued(StoredRows) \cup Valued(gap.online)) \subseteq gap.ret

\* C3: with F the requested symbols the store query returned
\* rows for, one FetcherBase is built, for exactly S minus F, none when
\* S minus F is empty, and the frame returned holds the stored cells of F
\* and the fetched cells of S minus F.
C3_GapFillCompleteness ==
    gap.pc = "returned" =>
        /\ OneFetchOf(gap.ts_codes \ {r.k[1] : r \in StoredRows})
        /\ ReturnsStoredAndFetched

\* C12: whatever the online fetch for the missing symbols gives (rows, an
\* empty result, or None after a failure inside FetcherBase.fetch), the call
\* returns without raising, and what it returns when nothing was fetched is
\* the frame recovered from the store.
C12_GapFillNeverRaises ==
    gap.pc = "returned" =>
        /\ ~gap.raised
        /\ gap.online = {} => gap.ret = pivot_table(StoredRows)

\* C13: when the store query fails (no connection, or no table), every
\* requested symbol is missing: one FetcherBase is built, for all of them.
C13_StoreFailureFetchesAll ==
    (gap.pc = "returned" /\ gap.dbFailed) => gap.fetchers = <<gap.ts_codes>>

C13_Witness ==
    /\ gap.pc = "returned" /\ gap.dbFailed /\ ~gap.raised
    /\ store0.exists
    /\ gap.ts_codes = {"A", "B"}
    /\ \E r \in BagToSet(store0.rows) : r.k[1] = "A" /\ r.k[3] \in GapFields /\ r.v # NULL
    /\ gap.fetchers = <<{"A", "B"}>>
    /\ \E c \in gap.ret : c.k[1] = "A" /\ c.v = "w"

\* the symbols given to the online fetch of the call
PassedOnline == UNION {gap.fetchers[i] : i \in DOMAIN gap.fetchers}

\* C26: when the store query succeeded, a requested symbol is left out of
\* the online fetch exactly when the query returned at least one row for it,
\* whatever the value of the row and however many fields or dates it lacks.
C26_SymbolLevelGapDetection ==
    (gap.pc = "returned" /\ ~gap.dbFailed) =>
        \A sym \in gap.ts_codes :
            sym \notin PassedOnline <=> \E r \in StoredRows : r.k[1] = sym

(***************************************************************************)
(* update_stock_daily: the reconcile run over the table stock_daily.       *)
(* A stored row is [k |-> <<ts_code, trade_date>>, adj_factor, close_qfq]; *)
(* close_qfq stands for the forward-adjusted columns and is written as the *)
(* factor it was adjusted with.  Dates are day numbers.                    *)
(***************************************************************************)
\* the number of runs followed
MaxRuns == 2
ReconSyms == {"X", "Y"}
\* the days the provider has rows for; the run happens on the last of them
TradeDays == {109, 110, 200}
Today == CHOOSE d \in TradeDays : \A e \in TradeDays : e <= d
\* timedelta(days=90)
ActiveDays == 90
Factors == {"1.000000", "1.000001", "1.050000"}
\* a factor in millionths
Micro == [f \in Factors |->
            IF f = "1.000000" THEN 1000000 ELSE IF f = "1.000001" THEN 1000001 ELSE 1050000]
Abs(n) == IF n < 0 THEN -n ELSE n
\* np.isclose(a, b) with its defaults: |a - b| <= 1e-8 + 1e-5 * |b|, here in
\* millionths and divided by 1000 to stay within 32 bits
isclose(a, b) == 100 * Abs(Micro[a] - Micro[b]) <= 1 + (Abs(Micro[b]) \div 1000)

\* the value of a column of a stored row; a column never written is NULL
Col(r, c) == IF c \in DOMAIN r THEN r[c] ELSE NULL

DailyRow(sym, d, f, q) ==
    [k |-> <<sym, d>>, close |-> "raw", adj_factor |-> f, close_qfq |-> q]

StoredDates(tbl, sym) == {r.k[2] : r \in {x \in BagToSet(tbl.rows) : x.k[1] = sym}}
MinDate(D) == CHOOSE d \in D : \A e \in D : d <= e
MaxDate(D) == CHOOSE d \in D : \A e \in D : e <= d
StoredAt(tbl, sym, d) == CHOOSE r \in BagToSet(tbl.rows) : r.k = <<sym, d>>

\* pro.pro_bar(ts_code, start_date, end_date, adj='qfq', fields=...): the
\* forward-adjusted rows of the span, without the factor itself
pro_bar(sym, start_date, end_date, factor) ==
    {[k |-> <<sym, d>>, close_qfq |-> factor] : d \in {x \in TradeDays : x \in start_date..end_date}}

\* upsert_daily_markets(engine, ts_codes, start_date, end_date, table_name):
\* the daily rows of the span, factor included, are upserted for the symbols
\* the provider delivers
upsert_daily_markets(tbl, ts_codes, start_date, end_date, factor, delivers) ==
    executemany(tbl,
                SeqOfSet({DailyRow(sym, d, factor[sym], factor[sym]) :
                             sym \in {x \in ts_codes : delivers[x]},
                             d \in {x \in TradeDays : x \in start_date..end_date}}),
                {"close", "adj_factor", "close_qfq"})

\* lines 57-68: one call per stored latest date that is before today
RECURSIVE IncrementalLoop(_, _, _, _, _)
IncrementalLoop(tbl, groups, latest_date, factor, delivers) ==
    IF groups = {} THEN tbl
    ELSE LET d == MinDate(groups)
             codes == {sym \in DOMAIN latest_date : latest_date[sym] = d}
         IN  IncrementalLoop(
                 IF d + 1 <= Today
                 THEN upsert_daily_markets(tbl, codes, d + 1, Today, factor, delivers)
                 ELSE tbl,
                 groups \ {d}, latest_date, factor, delivers)

\* a slip the comparison could have: the date checked is the latest date
\* the table holds after the incremental rows were written
qfq_changed_after_update(tbl, latest_date, factor, adjOk) ==
    {sym \in DOMAIN latest_date :
        /\ adjOk[latest_date[sym]]
        /\ Col(StoredAt(tbl, sym, MaxDate(StoredDates(tbl, sym))), "adj_factor") # NULL
        /\ ~isclose(Col(StoredAt(tbl, sym, MaxDate(StoredDates(tbl, sym))), "adj_factor"),
                    factor[sym])}

\* lines 148-160: the symbols whose stored and provider factors both exist
\* and are not close
qfq_changed_ts_codes(tbl, latest_date, factor, adjOk) ==
    {sym \in DOMAIN latest_date :
        /\ adjOk[latest_date[sym]]
        /\ Col(StoredAt(tbl, sym, latest_date[sym]), "adj_factor") # NULL
        /\ ~isclose(Col(StoredAt(tbl, sym, latest_date[sym]), "adj_factor"), factor[sym])}

\* the orders in which the refresh loop may meet the drifted symbols
Orders(S) == {o \in [1..Cardinality(S) -> S] : \A i, j \in DOMAIN o : o[i] = o[j] => i = j}

\* the stored table before a run
ReconStores ==
    {[exists |-> TRUE, pk |-> generator["stock_daily"].pk,
      rows |-> SetToBag({DailyRow(c[1], c[2], f[c[1]], "1.000000") :
                            c \in {x \in ReconSyms \X TradeDays : x[2] \in days[x[1]]}})] :
        days \in [ReconSyms -> SUBSET TradeDays],
        f \in [ReconSyms -> {"1.000000", NULL}]}

InitRecon ==
    /\ tableName = "stock_daily"
    /\ store \in ReconStores
    /\ prov \in [ReconSyms -> Factors]
    /\ recon = NoRecon
    /\ fetcher = NoFetch
    /\ fill = NoFill
    /\ reshape = NoReshape
    /\ sync = NoSync
    /\ getter = NoGetter
    /\ store0 = AbsentTable
    /\ gap = NoGap
    /\ last = NoCall
    /\ latest = [k \in Keys |-> NONE]
    /\ callLog = {}
    /\ writers = NoWriters

\* a slip the cutoff could have: no symbol is left out
IsActiveAlways(latest_date) == TRUE

\* lines 49-51: latest_date >= today - 90 days
IsActive(latest_date) == latest_date >= Today - ActiveDays

RowsOfSym(tbl, sym) == {r \in BagToSet(tbl.rows) : r.k[1] = sym}

\* one run of update_stock_daily(engine, table_name)
Reconcile ==
    /\ recon.runs < MaxRuns
    /\ LET all_ts_codes == {sym \in ReconSyms : StoredDates(store, sym) # {}}
               oldest_date == [sym \in all_ts_codes |-> MinDate(StoredDates(store, sym))]
               latest_all == [sym \in all_ts_codes |-> MaxDate(StoredDates(store, sym))]
               available_ts_codes == {sym \in all_ts_codes : IsActive(latest_all[sym])}
               latest_date == [sym \in available_ts_codes |-> latest_all[sym]]
               groups == {latest_date[sym] : sym \in available_ts_codes}
               repeat == recon.pc = "done" /\ ~recon.providerFailed
               run == [runs |-> recon.runs + 1, repeat |-> repeat, active |-> available_ts_codes,
                       stored |-> all_ts_codes, latest |-> latest_all,
                       incremental |-> {sym \in available_ts_codes :
                                           latest_date[sym] + 1 <= Today},
                       oldest |-> [sym \in available_ts_codes |-> oldest_date[sym]],
                       checked |-> latest_date]
           IN  IF all_ts_codes = {}
               THEN \* lines 35-37: nothing stored, nothing to do
                    /\ recon' = [pc |-> "done", providerFailed |-> FALSE, drifted |-> {},
                                 requests |-> <<>>, returned |-> {}, failed |-> {},
                                 written |-> {}] @@ run
                    /\ UNCHANGED store
               ELSE \E delivers \in [available_ts_codes -> BOOLEAN], adjOk \in [groups -> BOOLEAN] :
                      \E store1 \in {IncrementalLoop(store, groups, latest_date, prov, delivers)} :
                        \E changed \in {qfq_changed_ts_codes(store1, latest_date, prov, adjOk)} :
                          \E order \in Orders(changed), bar \in [changed -> {"rows", "empty", "raise"}] :
                            LET raises == {i \in DOMAIN order : bar[order[i]] = "raise"}
                                asked == IF raises = {} THEN changed
                                         ELSE {order[i] : i \in 1..MinDate(raises)}
                                curr_qfq_data ==
                                    UNION {pro_bar(sym, oldest_date[sym], Today, prov[sym]) :
                                              sym \in {x \in asked : bar[x] = "rows"}}
                                store2 ==
                                     IF raises # {} \/ curr_qfq_data = {} THEN store1
                                     ELSE upsert_to_mysql(store1, tableName, SeqOfSet(curr_qfq_data),
                                                          KeyCols, DefaultCreateSql, "none").store
                            IN  /\ recon' = [pc |-> IF raises = {} THEN "done" ELSE "aborted",
                                             failed |-> IF raises = {} THEN {}
                                                        ELSE {order[MinDate(raises)]},
                                             written |-> {sym \in ReconSyms :
                                                 RowsOfSym(store2, sym) # RowsOfSym(store, sym)},
                                             providerFailed |->
                                                 raises # {} \/ \E d \in groups : ~adjOk[d],
                                             drifted |-> changed,
                                             requests |-> [sym \in asked |->
                                                              <<oldest_date[sym], Today>>],
                                             returned |-> curr_qfq_data] @@ run
                                /\ store' = store2
    /\ UNCHANGED <<tableName, prov, upsertVars, concVars, gap, fetcher, callerVars>>

NextRecon == Reconcile

SpecRecon == InitRecon /\ [][NextRecon]_vars

(***************************************************************************)
(* Properties of update_stock_daily, checked under SpecRecon.              *)
(***************************************************************************)
\* C4: when a run has ended, every symbol it found drifted (its stored
\* factor at its stored latest date is not close to the provider's) was
\* asked from the provider for the span from its earliest stored date to
\* today, and every row returned for it is in the store, once, under its
\* (ts_code, trade_date), with the value returned.
C4_DriftFullRefresh ==
    recon.pc \in {"done", "aborted"} =>
        \A sym \in recon.drifted :
            /\ sym \in DOMAIN recon.requests
            /\ recon.requests[sym] = <<recon.oldest[sym], Today>>
            /\ recon.oldest[sym] <= recon.checked[sym]
            /\ \A r \in recon.returned :
                  r.k[1] = sym =>
                      \E e \in BagToSet(store.rows) :
                          /\ e.k = r.k /\ e.close_qfq = r.close_qfq
                          /\ CopiesIn(e, store.rows) = 1
                          /\ \A x \in BagToSet(store.rows) : x.k = r.k => x = e

\* C5: after a run that completed without a provider failure the factor
\* stored for each active symbol at the date the run checked is close to the
\* provider's factor; and a run started right after such a run, the provider
\* being the same, finds no symbol drifted and asks for no history.
C5_ReconcileConverges ==
    /\ (recon.pc = "done" /\ ~recon.providerFailed) =>
          \A sym \in recon.active :
              LET f == Col(StoredAt(store, sym, recon.checked[sym]), "adj_factor")
              IN  f # NULL => isclose(f, prov[sym])
    /\ (recon.pc = "done" /\ recon.repeat) =>
          recon.drifted = {} /\ DOMAIN recon.requests = {}

\* the run has ended, by its last line or by the exception that left it
Ended == recon.pc \in {"done", "aborted"}

\* every row the provider returned for sym in this run is in the store
Upserted(sym) ==
    \A r \in recon.returned :
        r.k[1] = sym =>
            \E e \in BagToSet(store.rows) : e.k = r.k /\ e.close_qfq = r.close_qfq

\* C17: when a run has ended, every symbol it found drifted, other than the
\* symbol whose own refresh request failed, was asked from the provider and
\* the rows returned for it are in the store.
C17_PerSymbolIsolation ==
    Ended => \A sym \in recon.drifted \ recon.failed :
                 sym \in DOMAIN recon.requests /\ Upserted(sym)

\* the three states a symbol can be left in by a run
Inactive(sym) == sym \notin recon.active /\ sym \notin DOMAIN recon.requests
Clean(sym) ==
    sym \in recon.active /\ sym \notin recon.drifted /\ sym \notin DOMAIN recon.requests
Refreshed(sym) ==
    sym \in recon.drifted /\ sym \in DOMAIN recon.requests /\ Upserted(sym)

\* C18: when a run has ended, every stored symbol is in exactly one of the
\* states inactive, clean, refreshed; so a symbol found drifted has been
\* asked from the provider and its returned rows are stored.
C18_OneTerminalState ==
    Ended => \A sym \in recon.stored :
                 /\ Inactive(sym) \/ Clean(sym) \/ Refreshed(sym)
                 /\ ~(Inactive(sym) /\ Clean(sym))
                 /\ ~(Inactive(sym) /\ Refreshed(sym))
                 /\ ~(Clean(sym) /\ Refreshed(sym))

\* C19: when a run has ended, a stored symbol was classified active exactly
\* when its latest stored date was not more than 90 days before today, and
\* a symbol that was not active was given to no provider call (incremental
\* rows, full history) and has the rows it had before the run.
C19_OnlyActiveTouched ==
    Ended => \A sym \in recon.stored :
                 /\ sym \in recon.active <=> recon.latest[sym] >= Today - ActiveDays
                 /\ recon.latest[sym] < Today - ActiveDays =>
                       /\ sym \notin recon.incremental
                       /\ sym \notin DOMAIN recon.requests
                       /\ sym \notin recon.written

\* a run that left out a symbol one day past the window, took one at its
\* boundary, and fetched and wrote for the one it took
C19_Witness ==
    /\ recon.pc = "done"
    /\ \E x, y \in recon.stored :
          /\ recon.latest[x] = Today - ActiveDays - 1 /\ x \notin recon.active
          /\ recon.latest[y] = Today - ActiveDays /\ y \in recon.active
          /\ y \in recon.incremental /\ y \in DOMAIN recon.requests
          /\ recon.written = {y}

\* C28: a run leaves every row the table held before it under its key with
\* its unadjusted price and its adj_factor as they were; the forward-adjusted
\* price of such a row changes only to the value the refresh returned for
\* its key.
C28_PartialColumnFrame ==
    [][recon'.pc \in {"done", "aborted"} =>
          \A e \in BagToSet(store.rows) :
              \E x \in BagToSet(store'.rows) :
                  /\ x.k = e.k
                  /\ Col(x, "close") = Col(e, "close")
                  /\ Col(x, "adj_factor") = Col(e, "adj_factor")
                  /\ Col(x, "close_qfq") # Col(e, "close_qfq") =>
                        \E r \in recon'.returned :
                            r.k = e.k /\ r.close_qfq = Col(x, "close_qfq")]_vars

\* a refreshed row: its forward-adjusted price is the provider's new one,
\* its adj_factor and unadjusted price the stored ones
C28_Witness ==
    /\ recon.pc = "done" /\ recon.drifted # {}
    /\ \E e \in BagToSet(store.rows) :
          /\ e.k[1] \in recon.drifted
          /\ e.k[2] = recon.checked[e.k[1]]
          /\ \E r \in recon.returned : r.k = e.k /\ r.close_qfq = Col(e, "close_qfq")
          /\ Col(e, "close_qfq") # Col(e, "adj_factor")
          /\ Col(e, "adj_factor") # NULL /\ Col(e, "close") = "raw"

\* C29: in a run that completed with every provider call answered, the
\* symbols found drifted are the active symbols whose factor stored at the
\* latest date the table held for them before the run is not close to the
\* provider's, whatever rows the incremental update wrote; and each is
\* asked from the oldest date the table held for it before the run.
C29_ComparedAtStartOfRun ==
    [][(recon'.pc = "done" /\ ~recon'.providerFailed /\ recon'.stored # {}) =>
          /\ recon'.drifted =
                {sym \in recon'.active :
                    LET f == Col(StoredAt(store', sym, MaxDate(StoredDates(store, sym))),
                                 "adj_factor")
                    IN  f # NULL /\ ~isclose(f, prov[sym])}
          /\ \A sym \in recon'.drifted :
                recon'.requests[sym] = <<MinDate(StoredDates(store, sym)), Today>>]_vars

\* a run that wrote incremental rows for a symbol and still found it drifted
\* at the date it had before
C29_Witness ==
    /\ recon.pc = "done" /\ ~recon.providerFailed
    /\ \E sym \in recon.drifted :
          /\ sym \in recon.incremental
          /\ recon.checked[sym] < Today
          /\ \E e \in BagToSet(store.rows) :
                e.k = <<sym, Today>> /\ Col(e, "adj_factor") = prov[sym]

(***************************************************************************)
(* FetcherBase.fetch: provider responses reshaped into one long relation.  *)
(* A long row is [ts_code, trade_date, data_name, data_value]; the value   *)
(* is written as the endpoint it came from.  The relation is a bag: melt   *)
(* keeps every column, also two of the same name.                          *)
(***************************************************************************)
\* longest list of queries of one FetcherBase
MaxQueries == 2

\* the queries callers compose: [api, fields, adj]
QueryCatalogue ==
    { [api |-> "stock_basic",  fields |-> <<"name">>,                 adj |-> "none"],
      [api |-> "stock_company", fields |-> <<"chairman">>,            adj |-> "none"],
      [api |-> "income",       fields |-> <<"end_date", "revenue">>,  adj |-> "none"],
      [api |-> "balancesheet", fields |-> <<"end_date", "assets">>,   adj |-> "none"],
      [api |-> "income",       fields |-> <<"revenue">>,              adj |-> "none"],
      [api |-> "daily",        fields |-> <<"open", "close">>,        adj |-> "none"],
      [api |-> "daily_basic",  fields |-> <<"close", "pe">>,          adj |-> "none"],
      [api |-> "pro_bar",      fields |-> <<"open", "close">>,        adj |-> "qfq"],
      [api |-> "pro_bar",      fields |-> <<"open", "close">>,        adj |-> "hfq"],
      [api |-> "ts.pro_bar",   fields |-> <<"pct_chg", "vol">>,       adj |-> "qfq"],
      [api |-> "weekly",       fields |-> <<"change">>,               adj |-> "none"],
      [api |-> "dayly",        fields |-> <<"close">>,                adj |-> "none"] }

\* the endpoints the provider has; a request for another one is refused by
\* the provider (pro.query raises with the provider's message)
ProviderApis ==
    {"stock_basic", "stock_company", "income", "balancesheet", "daily", "daily_basic",
     "weekly", "pro_bar", "ts.pro_bar"}
Unknown(query) == query.api \notin ProviderApis

\* endpoints whose rows carry end_date and no trade_date
PeriodicApis == {"income", "balancesheet"}

QueryLists ==
    {qs \in SeqsUpTo(QueryCatalogue, MaxQueries) :
        qs # <<>> /\ \A i, j \in DOMAIN qs : qs[i] = qs[j] => i = j}

SymbolLists == {<<"A">>, <<"A", "B">>}

\* what the provider answers to one call: rows, an empty frame, or (pro_bar,
\* as daily_update.py:173 allows for) None
Answers(query) ==
    IF query.api \in {"pro_bar", "ts.pro_bar"} THEN {"rows", "empty", "none"}
    ELSE IF Unknown(query) THEN {"error"}
    ELSE {"rows", "empty"}

Range(f) == {f[i] : i \in DOMAIN f}

LongRecord(ts_code, trade_date, data_name, data_value) ==
    [ts_code |-> ts_code, trade_date |-> trade_date,
     data_name |-> data_name, data_value |-> data_value]

\* lines 82, 86: where a query goes
IsExtra(query) == query.api \in {"stock_basic", "stock_company"}
IsAnn(query) == ~IsExtra(query) /\ "end_date" \in Range(query.fields)

IsRemaining(query) == ~IsExtra(query) /\ ~IsAnn(query)

\* lines 81-92: the list a query is appended to
Branch(query) ==
    IF IsExtra(query) THEN "extra" ELSE IF IsAnn(query) THEN "ann" ELSE "remaining"

SelectIdx(qs, branch) ==
    SelectSeq([i \in DOMAIN qs |-> i], LAMBDA i : Branch(qs[i]) = branch)

RECURSIVE Flatten(_)
Flatten(ss) == IF ss = <<>> THEN <<>> ELSE Head(ss) \o Flatten(Tail(ss))

\* a slip line 146 could have: the column keeps its name
RenamedColumnPlain(col, query) == col

\* lines 144-147: the name of a column of an adjusted time-series response
RenamedColumn(col, query) ==
    IF query.adj \in {"qfq", "hfq"}
          /\ col \in {"open", "high", "low", "close", "change", "pct_chg", "pre_close"}
    THEN col \o "_" \o query.adj
    ELSE col

\* the date a static field is stored under (line 105)
Sentinel == "1970-01-01"

\* the value a row of a query is written as: its endpoint (and adjustment)
Source(query) == IF query.adj = "none" THEN query.api ELSE query.api \o "." \o query.adj

Has(ans, i, sym) == ans[i][sym] = "rows"
NoStage == [aborted |-> FALSE, none |-> TRUE, rows |-> <<>>, exception |-> "none"]
Aborted(exception) == [aborted |-> TRUE, none |-> TRUE, rows |-> <<>>, exception |-> exception]
Stage(rows) == [aborted |-> FALSE, none |-> FALSE, rows |-> rows, exception |-> "none"]

\* the value columns of the frames idx, side by side (concat axis=1), as the
\* long rows melt makes of the line of one key; a frame without that key
\* gives NaN
SameName(col, query) == col

\* renamed: the frames went through the rename of lines 144-147
Melted(qs, idx, ans, sym, trade_date, renamed) ==
    Flatten([n \in DOMAIN idx |->
        LET i == idx[n]
            cols == SelectSeq(qs[i].fields, LAMBDA f : f # "end_date")
        IN  [c \in DOMAIN cols |->
                LongRecord(sym, trade_date,
                           IF renamed THEN RenamedColumn(cols[c], qs[i])
                           ELSE SameName(cols[c], qs[i]),
                           IF Has(ans, i, sym) THEN Source(qs[i]) ELSE NULL)]])

\* reset_index(drop=False) on a frame that was never given an index: the
\* row numbers become a column called index, which melt takes as a field
IndexColumn(sym, trade_date) == <<LongRecord(sym, trade_date, "index", "0")>>

SymsWithRows(idx, ans, syms) ==
    SelectSeq(syms, LAMBDA sym : \E n \in DOMAIN idx : Has(ans, idx[n], sym))

\* lines 94-107: extra_long
extra_long(qs, syms, ans) ==
    LET idx == SelectIdx(qs, "extra")
        found == SymsWithRows(idx, ans, syms)
    IN  IF idx = <<>> THEN NoStage
        ELSE Stage(Flatten([n \in DOMAIN found |->
                 (IF Len(idx) = 1 THEN IndexColumn(found[n], Sentinel) ELSE <<>>)
                 \o Melted(qs, idx, ans, found[n], Sentinel, FALSE)]))

\* the long rows of frames whose key columns are those of an empty frame
Unkeyed(rows) ==
    [n \in DOMAIN rows |-> [rows[n] EXCEPT !.ts_code = NULL, !.trade_date = NULL]]

\* lines 110-129: ann_long.  With several periodic queries an empty frame is
\* skipped by set_index but still concatenated (axis=1), its ts_code and
\* end_date still columns.  What pandas makes of the mixed indexes differs
\* between releases: an exception (in concat, or in reset_index that cannot
\* insert ts_code again), or a frame whose ts_code and end_date are the
\* empty frame's, all NaN
ann_long(qs, syms, ans, lib) ==
    LET idx == SelectIdx(qs, "ann")
        found == SymsWithRows(idx, ans, syms)
        mixed == /\ Len(idx) > 1
                 /\ \E n \in DOMAIN idx : \A sym \in Range(syms) : ~Has(ans, idx[n], sym)
    IN  IF idx = <<>> THEN NoStage
        ELSE IF mixed /\ lib = "raise" THEN Aborted("ValueError")
        ELSE IF found = <<>> THEN NoStage
        ELSE IF mixed
        THEN Stage(Unkeyed(Flatten([n \in DOMAIN found |->
                 IndexColumn(found[n], "e1")
                 \o Melted(qs, idx, ans, found[n], "e1", FALSE)])))
        ELSE Stage(Flatten([n \in DOMAIN found |->
                 (IF Len(idx) = 1 THEN IndexColumn(found[n], "e1") ELSE <<>>)
                 \o Melted(qs, idx, ans, found[n], "e1", FALSE)]))

\* lines 137-143, for one query and one symbol: the exception the step ends
\* with.  pro.query raises for an endpoint the provider does not have,
\* probar_fetch raises on None (res.columns), and
\* set_index(['ts_code', 'trade_date']) raises on a response without
\* trade_date
StepException(query, answer) ==
    IF answer = "error" THEN "Exception"
    ELSE IF answer = "none" THEN "AttributeError"
    ELSE IF query.api \in PeriodicApis THEN "KeyError"
    ELSE "none"

\* the steps of the loops of lines 133-143, symbols outside, queries inside
DailySteps(idx, syms) ==
    Flatten([s \in DOMAIN syms |-> [n \in DOMAIN idx |-> <<idx[n], syms[s]>>]])

\* the steps that raise, and the steps taken: all, or up to the first that
\* raises
Raising(qs, ans, steps) ==
    {t \in DOMAIN steps : StepException(qs[steps[t][1]], ans[steps[t][1]][steps[t][2]]) # "none"}
Taken(qs, ans, steps) ==
    LET raising == Raising(qs, ans, steps)
    IN  IF raising = {} THEN DOMAIN steps
        ELSE 1..(CHOOSE x \in raising : \A y \in raising : x <= y)

\* lines 131-160: daily_long
daily_long(qs, syms, ans) ==
    LET idx == SelectIdx(qs, "remaining")
        found == SymsWithRows(idx, ans, syms)
        steps == DailySteps(idx, syms)
        raising == Raising(qs, ans, steps)
    IN  IF idx = <<>> THEN NoStage
        ELSE IF raising # {}
        THEN LET t == CHOOSE x \in raising : \A y \in raising : x <= y
             IN  Aborted(StepException(qs[steps[t][1]], ans[steps[t][1]][steps[t][2]]))
        ELSE Stage(Flatten([n \in DOMAIN found |->
                 Melted(qs, idx, ans, found[n], "d1", TRUE)]))

\* the queries a provider call was made for: those of the dispatch loop
\* (lines 81-92), and those of the steps taken once lines 131-143 are reached
called(qs, syms, ans, lib) ==
    Range(SelectIdx(qs, "extra")) \cup Range(SelectIdx(qs, "ann")) \cup
    (IF ann_long(qs, syms, ans, lib).aborted THEN {}
     ELSE LET steps == DailySteps(SelectIdx(qs, "remaining"), syms)
          IN  {steps[t][1] : t \in Taken(qs, ans, steps)})

\* fetch(): [none, rows, exception, called]; logger.catch (line 74) logs any
\* exception and returns None, and pd.concat of three None raises
fetch(qs, syms, ans, lib) ==
    LET ann == ann_long(qs, syms, ans, lib)
        daily == daily_long(qs, syms, ans)
        extra == extra_long(qs, syms, ans)
        made == called(qs, syms, ans, lib)
    IN  IF ann.aborted
        THEN [none |-> TRUE, rows |-> EmptyBag, exception |-> ann.exception, called |-> made]
        ELSE IF daily.aborted
        THEN [none |-> TRUE, rows |-> EmptyBag, exception |-> daily.exception, called |-> made]
        ELSE IF ann.none /\ daily.none /\ extra.none
        THEN [none |-> TRUE, rows |-> EmptyBag, exception |-> "ValueError", called |-> made]
        ELSE [none |-> FALSE, rows |-> BagOfSeq(ann.rows \o daily.rows \o extra.rows),
              exception |-> "none", called |-> made]

InitFetch ==
    /\ fetcher = NoFetch
    /\ fill = NoFill
    /\ reshape = NoReshape
    /\ sync = NoSync
    /\ getter = NoGetter
    /\ tableName = "extra_data"
    /\ store = AbsentTable
    /\ store0 = AbsentTable
    /\ gap = NoGap
    /\ prov = NoProv
    /\ recon = NoRecon
    /\ last = NoCall
    /\ latest = [k \in Keys |-> NONE]
    /\ callLog = {}
    /\ writers = NoWriters

\* FetcherBase(start_date, end_date, ts_codes, queries).fetch()
Fetch ==
    /\ fetcher.pc = "idle"
    /\ \E qs \in QueryLists, syms \in SymbolLists :
         \E ans \in [DOMAIN qs -> [Range(syms) -> {"rows", "empty", "none", "error"}]] :
            /\ \A i \in DOMAIN qs : \A sym \in Range(syms) : ans[i][sym] \in Answers(qs[i])
            /\ \E lib \in {"raise", "unkeyed"} :
                  fetcher' = [pc |-> "fetched", queries |-> qs, ts_codes |-> syms,
                              answers |-> ans, ret |-> fetch(qs, syms, ans, lib)]
    /\ UNCHANGED <<tableName, store, store0, upsertVars, writers, gap, reconVars, callerVars>>

NextFetch == Fetch

SpecFetch == InitFetch /\ [][NextFetch]_vars

(***************************************************************************)
(* Properties of FetcherBase.fetch, checked under SpecFetch.               *)
(***************************************************************************)
Returned == BagToSet(fetcher.ret.rows)
AllAnswered ==
    \A i \in DOMAIN fetcher.queries : \A sym \in Range(fetcher.ts_codes) :
        Has(fetcher.answers, i, sym)
NoEndDate(query) == query.api \in PeriodicApis /\ "end_date" \notin Range(query.fields)

\* C14: when the provider answers every call with rows and one of the
\* queries is a periodic-report query without end_date in its fields, the
\* fetch still returns the rows of each other query.
C14_NoEndDateDoesNotAbort ==
    (fetcher.pc = "fetched" /\ AllAnswered) =>
        \A i, j \in DOMAIN fetcher.queries :
            (NoEndDate(fetcher.queries[i]) /\ j # i) =>
                /\ ~fetcher.ret.none
                /\ \E r \in Returned : r.data_value = Source(fetcher.queries[j])

SameKey(r, e) ==
    r.ts_code = e.ts_code /\ r.trade_date = e.trade_date /\ r.data_name = e.data_name

\* C15: the long relation a fetch returns holds one row per (ts_code,
\* trade_date, data_name); a field that two time-series queries both return
\* for a symbol is there once, with the value of the first of the queries.
C15_OneRowPerKey ==
    (fetcher.pc = "fetched" /\ ~fetcher.ret.none) =>
        \A r \in Returned :
            /\ CopiesIn(r, fetcher.ret.rows) = 1
            /\ \A e \in Returned : SameKey(r, e) => e = r
            /\ \A i, j \in DOMAIN fetcher.queries :
                  (/\ i < j
                   /\ r.data_value = Source(fetcher.queries[j])
                   /\ IsRemaining(fetcher.queries[i]) /\ IsRemaining(fetcher.queries[j])
                   /\ Has(fetcher.answers, i, r.ts_code))
                  => \A c \in Range(fetcher.queries[i].fields) :
                        RenamedColumn(c, fetcher.queries[i]) # r.data_name

WellFormed ==
    \A i \in DOMAIN fetcher.queries :
        /\ ~NoEndDate(fetcher.queries[i])
        /\ ~Unknown(fetcher.queries[i])
        /\ \A sym \in Range(fetcher.ts_codes) : fetcher.answers[i][sym] # "none"

\* C16: when every query is well formed and the provider answers each call
\* with rows or with an empty frame, the fetch returns, and what it returns
\* holds, for every query and symbol the provider gave rows for, rows of
\* that symbol with the values of that query; an empty answer adds no value.
C16_EmptyAnswerDoesNotAbort ==
    (fetcher.pc = "fetched" /\ WellFormed) =>
        \A i \in DOMAIN fetcher.queries : \A sym \in Range(fetcher.ts_codes) :
            IF Has(fetcher.answers, i, sym)
            THEN /\ ~fetcher.ret.none
                 /\ \E r \in Returned :
                       r.ts_code = sym /\ r.data_value = Source(fetcher.queries[i])
            ELSE \A r \in Returned :
                    ~(r.ts_code = sym /\ r.data_value = Source(fetcher.queries[i]))

Adjusted(query) == query.adj \in {"qfq", "hfq"}
RowsOf(query) == {r \in Returned : r.data_value = Source(query)}

\* C20: the rows a fetch returns for a forward-adjusted request of open and
\* close are named open_qfq and close_qfq, those of a backward-adjusted one
\* open_hfq and close_hfq, those of an unadjusted one open and close; no
\* adjusted row has the name (hence the key) of an unadjusted row.
C20_AdjustedNamesAreSuffixed ==
    (fetcher.pc = "fetched" /\ ~fetcher.ret.none) =>
        /\ \A i \in DOMAIN fetcher.queries :
              LET q == fetcher.queries[i]
              IN  (q.fields = <<"open", "close">> /\ RowsOf(q) # {}) =>
                      {r.data_name : r \in RowsOf(q)} =
                          IF q.adj = "qfq" THEN {"open_qfq", "close_qfq"}
                          ELSE IF q.adj = "hfq" THEN {"open_hfq", "close_hfq"}
                          ELSE {"open", "close"}
        /\ \A i, j \in DOMAIN fetcher.queries :
              (Adjusted(fetcher.queries[i]) /\ ~Adjusted(fetcher.queries[j])) =>
                  \A r \in RowsOf(fetcher.queries[i]), e \in RowsOf(fetcher.queries[j]) :
                      r.data_name # e.data_name

C20_Witness ==
    /\ fetcher.pc = "fetched" /\ ~fetcher.ret.none
    /\ \E r \in Returned : r.data_name = "close_qfq" /\ r.data_value = "pro_bar.qfq"
    /\ \E r \in Returned : r.data_name = "close" /\ r.data_value = "daily"
                              /\ r.ts_code = "A" /\ r.trade_date = "d1"

\* the fields fetch_data takes as adjusted (targets, factor_lab/base.py:267)
Adjustable == {"open", "high", "low", "close", "change", "pre_close"}

\* C21: the rows a fetch returns for an adjusted request are named
\* <field>_<mode> for each requested field of the adjustable subset and by
\* the field's own name for each other requested field.
C21_SuffixOnAdjustableOnly ==
    (fetcher.pc = "fetched" /\ ~fetcher.ret.none) =>
        \A i \in DOMAIN fetcher.queries :
            LET q == fetcher.queries[i]
            IN  (Adjusted(q) /\ RowsOf(q) # {}) =>
                    {r.data_name : r \in RowsOf(q)} =
                        {IF f \in Adjustable THEN f \o "_" \o q.adj ELSE f :
                            f \in Range(q.fields)}

\* C24: a fetch whose queries name an endpoint that is none of the
\* provider's ends with an unknown-endpoint error, and no provider call was
\* made for that query.
C24_UnknownEndpointFails ==
    fetcher.pc = "fetched" =>
        \A i \in DOMAIN fetcher.queries :
            Unknown(fetcher.queries[i]) =>
                /\ fetcher.ret.exception = "UnknownEndpointError"
                /\ i \notin fetcher.ret.called

(***************************************************************************)
(* sync_daily_to_narrow: the rows of stock_daily in a date range, melted   *)
(* and upserted into extra_data chunk by chunk.  A stock_daily row is      *)
(* [ts_code, trade_date, close, vol]; a long row is a LongRow.             *)
(***************************************************************************)
\* the number of runs followed
MaxSyncRuns == 2
\* rows of stock_daily read at a time (50000 in the source)
CHUNK_SIZE == 2

SyncDates == 1..3
\* line 43: the columns of stock_daily that are not id_vars
value_vars == <<"close", "vol">>

\* stock_daily before the runs: per date no row, or a row of symbol A whose
\* cells are valued or NULL
SourceTables ==
    {{[ts_code |-> "A", trade_date |-> d, close |-> cell[d][1], vol |-> cell[d][2]] :
         d \in {x \in SyncDates : cell[x] # <<"absent", "absent">>}} :
        cell \in [SyncDates -> ({NULL, "v"} \X {NULL, "v"}) \cup {<<"absent", "absent">>}]}

SyncRanges == {<<1, 3>>, <<2, 3>>}

\* lines 71-81: pd.melt of a chunk and dropna(subset=['data_value'])
melt_dropna(chunk) ==
    SelectSeq(
        Flatten([n \in DOMAIN chunk |->
            [c \in DOMAIN value_vars |->
                LongRow(chunk[n].ts_code, chunk[n].trade_date, value_vars[c],
                        chunk[n][value_vars[c]])]]),
        LAMBDA r : r.v # NULL)

\* lines 68-96: the loop over the chunks of the rows read
RECURSIVE sync_chunks(_, _)
sync_chunks(tbl, wide) ==
    IF wide = <<>> THEN tbl
    ELSE LET n == IF Len(wide) < CHUNK_SIZE THEN Len(wide) ELSE CHUNK_SIZE
             df_chunk_narrow == melt_dropna(SubSeq(wide, 1, n))
             after == IF df_chunk_narrow = <<>> THEN tbl
                      ELSE upsert_to_mysql(tbl, "extra_data", df_chunk_narrow, KeyCols,
                                           [head |-> "auto", rest |-> ""], "none").store
         IN  sync_chunks(after, SubSeq(wide, n + 1, Len(wide)))

\* extra_data before the first run
SyncStores ==
    {AbsentTable, EmptyTable(KeyCols),
     [exists |-> TRUE, pk |-> KeyCols,
      rows |-> SetToBag({LongRow("A", 3, "close", "old"), LongRow("A", 3, "pe", "old")})]}

InitSync ==
    /\ tableName = "extra_data"
    /\ store \in SyncStores
    /\ store0 = store
    /\ \E source \in SourceTables, range \in SyncRanges :
          sync = [pc |-> "idle", runs |-> 0, source |-> source,
                  start_date |-> range[1], end_date |-> range[2], once |-> store]
    /\ gap = NoGap
    /\ prov = NoProv
    /\ recon = NoRecon
    /\ fetcher = NoFetch
    /\ fill = NoFill
    /\ reshape = NoReshape
    /\ getter = NoGetter
    /\ last = NoCall
    /\ latest = [k \in Keys |-> NONE]
    /\ callLog = {}
    /\ writers = NoWriters

\* one run of sync_daily_to_narrow(start_date, end_date); the rows come in
\* the order the server reads them in
SyncRun ==
    /\ sync.runs < MaxSyncRuns
    /\ LET read == {r \in sync.source : r.trade_date \in sync.start_date..sync.end_date}
       IN  \E order \in Orders(read) :
              /\ store' = sync_chunks(store, order)
              /\ sync' = [sync EXCEPT !.pc = "done", !.runs = @ + 1,
                                      !.once = IF sync.runs = 0 THEN store' ELSE @]
    /\ UNCHANGED <<tableName, store0, upsertVars, writers, gap, reconVars, fetcher,
                   fill, reshape, getter>>

NextSync == SyncRun

SpecSync == InitSync /\ [][NextSync]_vars

\* C25: after the second of two runs over the same range and the same
\* stock_daily, extra_data is as the first run left it, and holds one row
\* per (ts_code, trade_date, data_name).
C25_SyncIdempotent ==
    sync.runs = 2 =>
        /\ store = sync.once
        /\ \A r \in BagToSet(store.rows) :
              /\ CopiesIn(r, store.rows) = 1
              /\ \A e \in BagToSet(store.rows) : e.k = r.k => e = r

(***************************************************************************)
(* The reshape of one time-series response: melted as FetcherBase.fetch    *)
(* does, pivoted back as fetch_data does.  A response row is [ts_code,     *)
(* trade_date, open, vol], a cell NULL when the provider gave None/NaN.    *)
(***************************************************************************)
ReshapeKeys == {<<"A", 1>>, <<"A", 2>>, <<"B", 1>>}
ReshapeFields == <<"open", "vol">>
CellValues == {NULL, "1.0", "2.0"}

\* the responses: one row per (ts_code, trade_date), or none
Responses ==
    {{[ts_code |-> key[1], trade_date |-> key[2], open |-> cell[key][1], vol |-> cell[key][2]] :
         key \in {x \in ReshapeKeys : cell[x] # <<"absent", "absent">>}} :
        cell \in [ReshapeKeys -> (CellValues \X CellValues) \cup {<<"absent", "absent">>}]}

\* data_fetchers/base.py:144-157: the rename of an adjusted response and
\* pd.melt(daily, id_vars=['ts_code', 'trade_date']): column by column, the
\* rows in order
melt(daily, query) ==
    Flatten([c \in DOMAIN query.fields |->
        [n \in DOMAIN daily |->
            LongRow(daily[n].ts_code, daily[n].trade_date,
                    RenamedColumn(query.fields[c], query), daily[n][query.fields[c]])]])

\* factor_lab/base.py:327-329: the frame pivot_table gives: its index, its
\* columns and its cells
Frame(cells) ==
    [index |-> {<<c.k[2], c.k[1]>> : c \in cells},
     columns |-> {c.k[3] : c \in cells},
     cells |-> cells]

\* df.loc[(trade_date, ts_code), column]: the cell, NaN where the frame has
\* the line and the column but no value, KeyError where it has not
At(frame, trade_date, ts_code, column) ==
    IF <<trade_date, ts_code>> \notin frame.index \/ column \notin frame.columns
    THEN "KeyError"
    ELSE LET cell == {c \in frame.cells : c.k = <<ts_code, trade_date, column>>}
         IN  IF cell = {} THEN NULL ELSE (CHOOSE c \in cell : TRUE).v

InitReshape ==
    /\ \E response \in Responses, adj \in {"none", "qfq"} :
          reshape = [pc |-> "answered", response |-> response,
                     query |-> [api |-> "pro_bar", fields |-> ReshapeFields, adj |-> adj]]
    /\ tableName = "extra_data"
    /\ store = AbsentTable
    /\ store0 = AbsentTable
    /\ gap = NoGap
    /\ prov = NoProv
    /\ recon = NoRecon
    /\ fetcher = NoFetch
    /\ fill = NoFill
    /\ sync = NoSync
    /\ getter = NoGetter
    /\ last = NoCall
    /\ latest = [k \in Keys |-> NONE]
    /\ callLog = {}
    /\ writers = NoWriters

\* the response is melted and the long rows are pivoted
Reshape ==
    /\ reshape.pc = "answered"
    /\ \E daily \in Orders(reshape.response) :
          LET melted == melt(daily, reshape.query)
          IN  reshape' = [pc |-> "pivoted", response |-> reshape.response,
                          query |-> reshape.query, long |-> BagOfSeq(melted),
                          wide |-> Frame(pivot_table(Range(melted)))]
    /\ UNCHANGED <<tableName, store, store0, upsertVars, writers, gap, reconVars, fetcher,
                   fill, sync, getter>>

NextReshape == Reshape

SpecReshape == InitReshape /\ [][NextReshape]_vars

\* C22: the frame pivoted back from the long form of a response has, for
\* every row and field of the response, the cell of the response: its value,
\* or null where the response had null.
C22_RoundTripReshape ==
    reshape.pc = "pivoted" =>
        \A r \in reshape.response : \A c \in DOMAIN reshape.query.fields :
            At(reshape.wide, r.trade_date, r.ts_code,
               RenamedColumn(reshape.query.fields[c], reshape.query))
                = r[reshape.query.fields[c]]

(***************************************************************************)
(* fetch_data with the FetcherBase it builds: the names it asks the store  *)
(* for, the rows fetch() returns, and the store the rows are upserted in.  *)
(* Dates are "d1" (a trading day), "e1" (a report period end before it)    *)
(* and the date static fields are stored under.                            *)
(***************************************************************************)
\* the number of fetch_data calls followed
MaxFillCalls == 2

\* factor_lab/base.py:263-275: the data_name a requested field is asked
\* from the store under
NeededName(f, query) ==
    LET named == IF query.adj \in {"qfq", "hfq"}
                 THEN IF f \in Adjustable THEN f \o "_" \o query.adj ELSE f
                 ELSE IF f \in {"change", "pre_close"} THEN f \o "_qfq" ELSE f
    IN  IF named = "change_qfq" THEN "price_change_qfq"
        ELSE IF named = "change_hfq" THEN "price_change_hfq"
        ELSE named

all_fields_needed(queries) ==
    UNION {{NeededName(queries[i].fields[c], queries[i]) : c \in DOMAIN queries[i].fields} :
              i \in DOMAIN queries}

\* the order of the dates, as BETWEEN compares them
DayOf == [x \in {Sentinel, "e1", "d1"} |-> IF x = Sentinel THEN 0 ELSE IF x = "e1" THEN 1 ELSE 2]

\* the ranges of a request: from the period end, and from the trading day
FillRanges == {<<1, 2>>, <<2, 2>>}

\* lines 283-288 over the long rows of this store
sql_fetch_between(tbl, ts_codes, fields, range) ==
    {r \in BagToSet(tbl.rows) :
        /\ r.k[3] \in fields
        /\ r.k[2] # NULL /\ DayOf[r.k[2]] \in range[1]..range[2]
        /\ r.k[1] \in ts_codes}

RECURSIVE SeqOfBag(_)
SeqOfBag(B) ==
    IF BagToSet(B) = {} THEN <<>>
    ELSE LET x == CHOOSE y \in BagToSet(B) : TRUE
         IN  <<x>> \o SeqOfBag(B (-) SetToBag({x}))

\* the rows of fetch() as rows of extra_data
AsLongRows(rows) ==
    [n \in DOMAIN rows |->
        LongRow(rows[n].ts_code, rows[n].trade_date, rows[n].data_name, rows[n].data_value)]

\* lines 323-324: the upsert of the fetched rows; a table with a primary key
\* refuses a row without ts_code or trade_date, and the call writes nothing
upsert_fetched(tbl, df) ==
    IF tbl.pk # {} /\ \E n \in DOMAIN df : df[n].k[1] = NULL \/ df[n].k[2] = NULL
    THEN tbl
    ELSE upsert_to_mysql(tbl, "extra_data", df, KeyCols,
                         [head |-> "auto", rest |-> ""], "none").store

InitFill ==
    /\ \E qs \in QueryLists, syms \in SymbolLists :
          fill = [pc |-> "idle", queries |-> qs, ts_codes |-> syms, calls |-> <<>>]
    /\ tableName = "extra_data"
    /\ store \in {AbsentTable, EmptyTable(KeyCols)}
    /\ store0 = store
    /\ gap = NoGap
    /\ prov = NoProv
    /\ recon = NoRecon
    /\ fetcher = NoFetch
    /\ reshape = NoReshape
    /\ sync = NoSync
    /\ getter = NoGetter
    /\ last = NoCall
    /\ latest = [k \in Keys |-> NONE]
    /\ callLog = {}
    /\ writers = NoWriters

\* one call of fetch_data(queries, start_date, end_date) on a factor built
\* for ts_codes; the store query succeeds and the provider answers with a
\* frame or an error.  The calls are followed until one raises
FillCall ==
    /\ Len(fill.calls) < MaxFillCalls
    /\ fill.pc # "raised"
    /\ \E range \in FillRanges :
         LET wide == IF ~store.exists THEN {}
                     ELSE pivot_table(sql_fetch_between(store, Range(fill.ts_codes),
                                          all_fields_needed(fill.queries), range))
             missing == SelectSeq(fill.ts_codes, LAMBDA sym : sym \notin found_ts_codes(wide))
             call == [range |-> range, missing |-> Range(missing)]
         IN  IF missing = <<>>
             THEN /\ fill' = [fill EXCEPT !.pc = "returned",
                                  !.calls = Append(@, call @@ [raised |-> FALSE, rows |-> <<>>,
                                                               changed |-> FALSE])]
                  /\ UNCHANGED store
             ELSE \E ans \in [DOMAIN fill.queries ->
                                 [Range(missing) -> {"rows", "empty", "error"}]] :
                    /\ \A i \in DOMAIN fill.queries : \A sym \in Range(missing) :
                          ans[i][sym] \in Answers(fill.queries[i])
                    /\ \E lib \in {"raise", "unkeyed"} :
                          LET df_online_narrow == fetch(fill.queries, missing, ans, lib)
                              df == AsLongRows(SeqOfBag(df_online_narrow.rows))
                              after == IF df_online_narrow.none \/ df = <<>> THEN store
                                       ELSE upsert_fetched(store, df)
                          IN  /\ fill' = [fill EXCEPT
                                    !.pc = IF df_online_narrow.none THEN "raised" ELSE "returned",
                                    !.calls = Append(@, call @@
                                                 [raised |-> df_online_narrow.none,
                                                  rows |-> df, changed |-> after # store])]
                              /\ store' = after
    /\ UNCHANGED <<tableName, store0, upsertVars, writers, gap, reconVars, fetcher,
                   reshape, sync, getter>>

NextFill == FillCall

SpecFill == InitFill /\ [][NextFill]_vars

(***************************************************************************)
(* Properties of fetch_data with its FetcherBase, checked under SpecFill.  *)
(***************************************************************************)
\* the valued rows a call fetched for a symbol and changed the store with
Persisted(call, sym) ==
    IF ~call.changed THEN {}
    ELSE {call.rows[n] : n \in {m \in DOMAIN call.rows :
                                   call.rows[m].k[1] = sym /\ call.rows[m].v # NULL}}

StaticFields ==
    UNION {Range(fill.queries[i].fields) : i \in {j \in DOMAIN fill.queries :
                                                     IsExtra(fill.queries[j])}}

\* C23: the static fields a call fetched and wrote are stored under the
\* date 1970-01-01, and a later call for the same fields and symbol, with
\* whatever date range, does not pass the symbol to the provider.
C23_StaticFetchedOnce ==
    Len(fill.calls) = 2 =>
        \A sym \in Range(fill.ts_codes) :
            LET static == {r \in Persisted(fill.calls[1], sym) : r.k[3] \in StaticFields}
            IN  static # {} =>
                    /\ \A r \in static : r.k[2] = Sentinel
                    /\ sym \notin fill.calls[2].missing

\* C27: every row a call fetched for a requested field has a data_name the
\* call asks the store for, and a second call with the same queries, symbols
\* and range does not pass to the provider a symbol the first call fetched
\* and wrote rows for.
C27_WriteReadNamesAgree ==
    /\ \A c \in DOMAIN fill.calls : \A n \in DOMAIN fill.calls[c].rows :
          fill.calls[c].rows[n].k[3] # "index" =>
              fill.calls[c].rows[n].k[3] \in all_fields_needed(fill.queries)
    /\ (Len(fill.calls) = 2 /\ fill.calls[1].range = fill.calls[2].range) =>
          \A sym \in Range(fill.ts_codes) :
              Persisted(fill.calls[1], sym) # {} => sym \notin fill.calls[2].missing

(***************************************************************************)
(* modules/get_stock_daily.py: get_stock_daily and upsert_daily_markets.   *)
(* The provider's four answers of one attempt are frames over GetDates;    *)
(* the merge, the null count and the branches after the attempt loop are   *)
(* those of the code.                                                      *)
(***************************************************************************)
\* line 72: symbols per call of get_stock_daily
step == 5

GetDates == {1, 2}
GetLists == {<<"X">>, <<"X", "Y">>, <<"Y", "X">>}
Strategies == {"conservative", "aggressive", "bold"}

\* ts.pro_bar(adj=None): the unadjusted rows (vol renamed to volume, line 34)
cq_data(sym, kind) ==
    IF kind = "full" THEN {[k |-> <<sym, d>>, close |-> "raw"] : d \in GetDates}
    ELSE {}

\* ts.pro_bar(adj='qfq') after the renames of line 35; on the listing day
\* pre_close and change are missing
qfq_data(sym, kind) ==
    IF kind = "empty" THEN {}
    ELSE {[k |-> <<sym, d>>,
           pre_close_qfq |-> IF kind = "listing" /\ d = 1 THEN NULL ELSE "q",
           price_change_qfq |-> IF kind = "listing" /\ d = 1 THEN NULL ELSE "q"] :
             d \in GetDates}

\* ts.pro_bar(adj='hfq') after the renames of line 36
hfq_data(sym, kind) ==
    IF kind = "empty" THEN {}
    ELSE {[k |-> <<sym, d>>,
           pre_close_hfq |-> IF kind = "listing" /\ d = 1 THEN NULL ELSE "h",
           price_change_hfq |-> IF kind = "listing" /\ d = 1 THEN NULL ELSE "h"] :
             d \in GetDates}

\* pro.adj_factor: a factor per day, or only for the later days
adjfactor_data(sym, kind) ==
    IF kind = "empty" THEN {}
    ELSE {[k |-> <<sym, d>>, adj_factor |-> "f"] :
             d \in IF kind = "short" THEN GetDates \ {1} ELSE GetDates}

\* what the provider may answer to the four calls of one attempt
ProviderFrames ==
    [cq : {"full", "empty", "none"}, qfq : {"full", "listing", "empty", "none"},
     hfq : {"full", "listing", "empty", "none"}, adj : {"full", "short", "empty"}]

\* pd.merge(left, right, on=['ts_code','trade_date'], how='left'): every left
\* row, with the right columns of its key or nulls
merge_left(left, right, cols) ==
    {l @@ [c \in cols |->
              IF \E r \in right : r.k = l.k
              THEN (CHOOSE r \in right : r.k = l.k)[c] ELSE NULL] : l \in left}

\* lines 38-40: the three merges onto the unadjusted rows
merge3(sym, a) ==
    merge_left(merge_left(merge_left(cq_data(sym, a.cq), qfq_data(sym, a.qfq),
                                     {"pre_close_qfq", "price_change_qfq"}),
                          hfq_data(sym, a.hfq), {"pre_close_hfq", "price_change_hfq"}),
               adjfactor_data(sym, a.adj), {"adj_factor"})

\* merged.isnull().sum().sum()
RECURSIVE isnull_sum(_)
isnull_sum(merged) ==
    IF merged = <<>> THEN 0
    ELSE Cardinality({c \in DOMAIN Head(merged) : Head(merged)[c] = NULL})
           + isnull_sum(Tail(merged))

\* line 41: nulls, and not exactly the four of a listing day
has_unexpected_nulls(merged) == isnull_sum(merged) # 0 /\ isnull_sum(merged) # 4

\* the symbols of the call of get_stock_daily in progress: ts_codes[i:i+step]
Chunk == SubSeq(getter.ts_codes, getter.i + 1,
                IF getter.i + step < Len(getter.ts_codes) THEN getter.i + step
                ELSE Len(getter.ts_codes))

GetStores == {AbsentTable, EmptyTable(KeyCols)}

\* getter.tried records, per symbol, the attempts made and the rows of the
\* last merge as they were before line 43 cleared them
InitGet ==
    /\ \E codes \in GetLists, strategy \in Strategies :
          getter = [pc |-> "for", ts_codes |-> codes, strategy |-> strategy,
                    i |-> 0, n |-> 0, nan_count |-> 0, merged |-> <<>>,
                    cannot_access |-> FALSE, merged_list |-> <<>>,
                    tried |-> [sym \in Range(codes) |->
                                  [attempts |-> 0, merge |-> <<>>, nulls |-> FALSE]],
                    final_df |-> <<>>, exception |-> "none"]
    /\ tableName = "stock_daily"
    /\ store \in GetStores
    /\ store0 = store
    /\ gap = NoGap
    /\ prov = NoProv
    /\ recon = NoRecon
    /\ fetcher = NoFetch
    /\ fill = NoFill
    /\ reshape = NoReshape
    /\ sync = NoSync
    /\ last = NoCall
    /\ latest = [k \in Keys |-> NONE]
    /\ callLog = {}
    /\ writers = NoWriters

\* lines 18-21: the next symbol of the chunk
ForEachCode ==
    /\ getter.pc = "for"
    /\ getter.n < Len(Chunk)
    /\ getter' = [getter EXCEPT !.pc = "while", !.n = @ + 1, !.nan_count = 0,
                                !.merged = <<>>, !.cannot_access = FALSE]
    /\ UNCHANGED <<tableName, store, store0, upsertVars, writers, gap, reconVars, fetcher,
                   fill, reshape, sync>>

\* lines 22-46: one pass of `while nan_count < 3`.  A pro_bar call that
\* gives None ends the call at `.empty`; the name lookup of an unreachable
\* symbol may fail too
Attempt ==
    /\ getter.pc = "while"
    /\ getter.nan_count < 3
    /\ \E a \in ProviderFrames, named \in BOOLEAN :
         LET each_code == Chunk[getter.n]
             merged == SeqOfSet(merge3(each_code, a))
             seen == [getter EXCEPT !.tried[each_code].attempts = @ + 1]
         IN  IF "none" \in {a.cq, a.qfq, a.hfq}
             THEN getter' = [seen EXCEPT !.pc = "raised", !.exception = "AttributeError"]
             ELSE IF "empty" \in {a.cq, a.qfq, a.hfq, a.adj}
             THEN IF named
                  THEN getter' = [seen EXCEPT !.pc = "after", !.cannot_access = TRUE]
                  ELSE getter' = [seen EXCEPT !.pc = "raised", !.exception = "KeyError"]
             ELSE IF has_unexpected_nulls(merged)
             THEN getter' = [seen EXCEPT
                                !.nan_count = @ + 1,
                                !.merged = <<>>,
                                !.tried[each_code].merge = merged,
                                !.tried[each_code].nulls = TRUE,
                                !.pc = IF getter.nan_count + 1 < 3 THEN "while" ELSE "after"]
             ELSE getter' = [seen EXCEPT
                                !.merged = merged,
                                !.tried[each_code].merge = merged,
                                !.tried[each_code].nulls = FALSE,
                                !.pc = "after"]
    /\ UNCHANGED <<tableName, store, store0, upsertVars, writers, gap, reconVars, fetcher,
                   fill, reshape, sync>>

\* lines 47-58: after the loop
AfterWhile ==
    /\ getter.pc = "after"
    /\ IF getter.cannot_access
       THEN getter' = [getter EXCEPT !.pc = "for"]
       ELSE IF getter.nan_count = 3 /\ getter.strategy = "conservative"
       THEN getter' = [getter EXCEPT !.pc = "for"]
       ELSE IF getter.nan_count = 3 /\ getter.strategy # "aggressive"
       THEN getter' = [getter EXCEPT !.pc = "raised", !.exception = "ValueError"]
       ELSE getter' = [getter EXCEPT !.pc = "for",
                                     !.merged_list = Append(@, getter.merged)]
    /\ UNCHANGED <<tableName, store, store0, upsertVars, writers, gap, reconVars, fetcher,
                   fill, reshape, sync>>

\* lines 59-63 and 74-76: the frames appended are concatenated and the
\* result goes to upsert_to_mysql; then the next chunk
ReturnAndUpsert ==
    /\ getter.pc = "for"
    /\ getter.n = Len(Chunk)
    /\ LET final_df == Flatten(getter.merged_list)
           more == getter.i + step < Len(getter.ts_codes)
       IN  /\ store' = upsert_to_mysql(store, tableName, final_df, KeyCols,
                                       [head |-> "use default", rest |-> "stock_daily"],
                                       "none").store
           /\ getter' = [getter EXCEPT !.final_df = @ \o final_df,
                                       !.i = @ + step, !.n = 0, !.merged_list = <<>>,
                                       !.pc = IF more THEN "for" ELSE "done"]
    /\ UNCHANGED <<tableName, store0, upsertVars, writers, gap, reconVars, fetcher,
                   fill, reshape, sync>>

NextGet == ForEachCode \/ Attempt \/ AfterWhile \/ ReturnAndUpsert

SpecGet == InitGet /\ [][NextGet]_vars

\* the symbols whose three attempts all ended with unexpected nulls
Exhausted == {sym \in Range(getter.ts_codes) :
                 getter.tried[sym].attempts = 3 /\ getter.tried[sym].nulls}

\* C30: after three attempts that all left unexpected nulls, an aggressive
\* call returns and stores the symbol's merged rows, nulls included, and a
\* conservative call returns and stores no row of the symbol; no symbol is
\* attempted more than three times
C30_AggressiveKeepsRows ==
    /\ \A sym \in Range(getter.ts_codes) : getter.tried[sym].attempts <= 3
    /\ getter.pc = "done" =>
          \A sym \in Exhausted :
              /\ getter.strategy = "aggressive" =>
                    /\ Range(getter.tried[sym].merge) \subseteq Range(getter.final_df)
                    /\ Range(getter.tried[sym].merge) \subseteq BagToSet(store.rows)
              /\ getter.strategy = "conservative" =>
                    /\ \A r \in Range(getter.final_df) : r.k[1] # sym
                    /\ \A r \in BagToSet(store.rows) : r.k[1] # sym

====
